---- MODULE Spec2Model ----
(***************************************************************************)
(* Model of pkg/cluster/cluster.go: the lazily created, independently      *)
(* guarded resources of a cluster node (etcd client, lease, session,       *)
(* embedded etcd server), the bootstrap task (run / getReady), the         *)
(* heartbeat and defrag loops, PurgeMember and Close.                      *)
(*                                                                         *)
(* Granularity.  A section between Lock() and Unlock() of clientMutex or   *)
(* sessionMutex that only touches the guarded slot is one step (mutual     *)
(* exclusion makes it atomic); the RLock fast path in front of it is a     *)
(* separate step, so that the double check is something the model can get  *)
(* wrong.  serverMutex is explicit, because the server slot is also        *)
(* written by a goroutine that does not take it.  Every store RPC is one   *)
(* step and may fail.                                                      *)
(***************************************************************************)
EXTENDS Integers, Sequences, FiniteSets, TLC

\* ---------------------------------------------------------------- bounds
NumGetters == 3      \* concurrent callers of getClient / getSession
MaxCalls == 2        \* calls each such caller makes
NumClosers == 2      \* callers of Close
NumStarters == 2     \* callers of startServer besides the bootstrap task
MaxClients == 2      \* clients clientv3.New can construct in one behaviour
MaxSessions == 3     \* sessions concurrency.NewSession can construct
MaxServers == 2      \* servers embed.StartEtcd can start (server callers)
ProcServers == 1     \* servers embed.StartEtcd can start (whole process)
MaxGrants == 2       \* leases the store grants in one behaviour
MaxRetry == 1        \* value at which the retry counter of run saturates
MaxTicks == 2        \* defrag ticks that are counted

Nil == 0             \* a nil pointer / an empty slot
Free == <<"free">>   \* an unlocked mutex
AlreadyDone == -1    \* the closed done channel startServer returns at once
Err == -2            \* a call returned the error of a failed request
ErrNotReady == -3    \* "lease is not ready" / "server is not ready"
ErrParse == -4       \* strconv.ParseInt failed
ErrNotFound == -5    \* "<lease key> not found"
ErrTimeout == -6     \* "start server timeout"

\* ---------------------------------------------------------------- state
VARIABLES
    pc,              \* position of every task
    ret,             \* value returned by a task's last completed call
    calls,           \* calls completed by a task
    wait,            \* the server whose done/timeout a startServer caller got
    client,          \* c.client: Nil or the id of a client
    clientMade,      \* clients constructed so far (ids are 1..clientMade)
    clientOpen,      \* ids of the clients constructed and not closed
    session,         \* c.session
    sessionMade,     \* sessions constructed so far
    sessionOpen,     \* ids of the sessions constructed and not closed
    lease,           \* c.lease: Nil or a lease id
    server,          \* c.server: Nil or the id of a started server
    serverMutex,     \* Free or the task holding c.serverMutex
    serverWriter,    \* the task that wrote c.server last (Free: none yet)
    serverMade,      \* servers started so far (ids are 1..serverMade)
    srv,             \* per started server: its state and its goroutines
    done,            \* c.done is closed
    crashed,         \* the process panicked
    atClose,         \* what existed when Close was first invoked
    kv,              \* the store: key -> [val, lease] or NoVal
    storeMembers,    \* the store's member list
    leasesLive,      \* lease ids granted by the store and not revoked
    grants,          \* leases granted in this behaviour
    log,             \* mutating store requests issued, <<task, request, arg>>
    opt,             \* c.opt: ClusterRole and ForceNewCluster
    members,         \* c.members: the local membership view
    retry,           \* the loop counter i of run
    defragInterval,  \* the local defragInterval of defrag
    loc,             \* other locals of a task
    quota,           \* clients and servers the environment lets be made,
                     \* and the defrag ticks that are counted
    store0           \* the store as the process found it

clientVars == <<client, clientMade, clientOpen>>
sessionVars == <<session, sessionMade, sessionOpen>>
serverVars == <<server, serverMutex, serverWriter, serverMade, srv>>
taskVars == <<pc, ret, calls, wait>>
storeVars == <<kv, storeMembers, leasesLive, grants, log>>
procVars == <<opt, members, retry, defragInterval, loc, quota, store0>>
vars == <<taskVars, clientVars, sessionVars, lease, serverVars, done, crashed,
          atClose, storeVars, procVars>>

Getters == {<<"get", i>> : i \in 1..NumGetters}
Closers == {<<"close", i>> : i \in 1..NumClosers}
Starters == {<<"start", i>> : i \in 1..NumStarters}
Stopper == <<"stop", 1>>
Run == <<"run", 1>>
Defrag == <<"defrag", 1>>
Purger == <<"purge", 1>>
Threads == Getters \cup Closers \cup Starters \cup {Stopper, Run, Defrag, Purger}

Goto(t, l) == pc' = [pc EXCEPT ![t] = l]
\* A call of task t returns v; the calls of the tasks that repeat theirs
\* are counted.
Return(t, v) == /\ ret' = [ret EXCEPT ![t] = v]
                /\ calls' = [calls EXCEPT ![t] = IF t \in Getters \cup Starters
                                                 THEN @ + 1 ELSE @]

\* ------------------------------------------------------------ the store
SelfName == "n1"
Names == {"n1", "n2"}
Self == [name |-> "n1", id |-> 1]
Other == [name |-> "n2", id |-> 2]

\* Layout().Lease() is Layout().OtherLease(own name).
LeaseKey(n) == <<"lease", n>>
StatusKey(n) == <<"status", n>>
Keys == {LeaseKey(n) : n \in Names} \cup {StatusKey(n) : n \in Names}
NoVal == [val |-> <<>>, lease |-> Nil]
NoLocals == [client |-> Nil, name |-> "", id |-> Nil, lease |-> Nil]

HexDigit == <<"0", "1", "2", "3", "4", "5", "6", "7", "8", "9",
              "a", "b", "c", "d", "e", "f">>
UpperDigit == <<"0", "1", "2", "3", "4", "5", "6", "7", "8", "9",
                "A", "B", "C", "D", "E", "F">>

RECURSIVE hexOf(_)
hexOf(n) == IF n < 16 THEN <<HexDigit[n + 1]>>
            ELSE Append(hexOf(n \div 16), HexDigit[(n % 16) + 1])

\* fmt.Sprintf("%x", lease), lease an int64.
leaseToStr(n) == IF n < 0 THEN <<"-">> \o hexOf(-n) ELSE hexOf(n)

digitVal(c) ==
    IF \E k \in 1..16 : HexDigit[k] = c
    THEN (CHOOSE k \in 1..16 : HexDigit[k] = c) - 1
    ELSE IF \E k \in 1..16 : UpperDigit[k] = c
    THEN (CHOOSE k \in 1..16 : UpperDigit[k] = c) - 1
    ELSE -1

RECURSIVE digitsVal(_)
digitsVal(s) == IF s = <<>> THEN 0
                ELSE 16 * digitsVal(SubSeq(s, 1, Len(s) - 1)) + digitVal(s[Len(s)])

\* strconv.ParseInt(s, 16, 64): an optional sign, then one or more hex
\* digits of either case (the strings of the model stay far below 2^63).
strToleaseDecimal(s) ==
    LET digits == IF s # <<>> /\ s[1] \in {"+", "-"} THEN Tail(s) ELSE s
        val == digitsVal(digits) IN
    IF digits = <<>> \/ \E k \in 1..Len(digits) : digitVal(digits[k]) \notin 0..9
    THEN [ok |-> FALSE, val |-> 0]
    ELSE [ok |-> TRUE, val |-> IF s[1] = "-" THEN -val ELSE val]

strTolease(s) ==
    LET digits == IF s # <<>> /\ s[1] \in {"+", "-"} THEN Tail(s) ELSE s
        val == digitsVal(digits) IN
    IF digits = <<>> \/ \E k \in 1..Len(digits) : digitVal(digits[k]) < 0
    THEN [ok |-> FALSE, val |-> 0]
    ELSE [ok |-> TRUE, val |-> IF s[1] = "-" THEN -val ELSE val]

\* The id the store gives to the k-th lease it grants.
GrantedId(k) == 16 * k + 11
GrantOutcomes == IF grants < MaxGrants THEN BOOLEAN ELSE {FALSE}

\* Lease.Revoke: the lease and every key attached to it are gone.
revoked(l) == [k \in Keys |-> IF kv[k].lease = l THEN NoVal ELSE kv[k]]

\* What client.Get finds at a key: whether there is a value, and the value.
absent(key) == kv[key] = NoVal
stored(key) == kv[key].val

\* A store in which nothing is persisted for this node.
InitIdleStore ==
    /\ kv = [k \in Keys |-> NoVal]
    /\ storeMembers = <<Self>>
    /\ leasesLive = {}
    /\ opt = [role |-> "writer", forceNew |-> FALSE]
    /\ members = <<Self>>
    /\ quota = [clients |-> MaxClients, servers |-> MaxServers, ticks |-> 0]
    /\ store0 = [kv |-> kv, members |-> storeMembers]

\* ------------------------------------------------------------ getClient
\* c.client after the section under clientMutex.Lock(); getClient returns
\* the same value (nil together with the error).
getClientLockedNoDCL(cl, made, ok) ==
    IF ok THEN [client |-> made + 1, made |-> made + 1]
    ELSE [client |-> cl, made |-> made]

getClientLocked(cl, made, ok) ==
    IF cl # Nil THEN [client |-> cl, made |-> made]
    ELSE IF ok THEN [client |-> made + 1, made |-> made + 1]
    ELSE [client |-> Nil, made |-> made]

\* The outcomes clientv3.New can have.
DialOutcomes == IF clientMade < quota.clients THEN BOOLEAN ELSE {FALSE}

\* A whole getClient call made inside another operation: fast path and
\* locked section at the moment the lock is taken.  Its result is client'.
getClient(ok) ==
    LET r == getClientLocked(client, clientMade, ok) IN
    /\ client' = r.client
    /\ clientMade' = r.made
    /\ clientOpen' = IF r.made > clientMade THEN clientOpen \cup {r.client}
                     ELSE clientOpen

\* getClient called by a task of its own: the RLock fast path ...
getClientFast(t) ==
    /\ ~crashed /\ pc[t] = "idle" /\ calls[t] < MaxCalls
    /\ IF client # Nil
       THEN Return(t, client) /\ UNCHANGED pc
       ELSE Goto(t, "getClient_slow") /\ UNCHANGED <<ret, calls>>
    /\ UNCHANGED <<wait, clientVars, sessionVars, lease, serverVars, done,
                   crashed, atClose, storeVars, procVars>>

\* ... and the section under Lock.
getClientSlow(t) ==
    /\ ~crashed /\ pc[t] = "getClient_slow"
    /\ \E ok \in DialOutcomes : getClient(ok)
    /\ Return(t, IF client' = Nil THEN Err ELSE client')
    /\ Goto(t, "idle")
    /\ UNCHANGED <<wait, sessionVars, lease, serverVars, done, crashed, atClose, storeVars, procVars>>

closeClient ==
    /\ clientOpen' = clientOpen \ {client}
    /\ client' = Nil
    /\ UNCHANGED clientMade

\* ----------------------------------------------------------- getSession
getLease == IF lease = Nil THEN Err ELSE lease

\* The outcomes concurrency.NewSession can have.
SessionOutcomes == IF sessionMade < MaxSessions THEN BOOLEAN ELSE {FALSE}

\* The section of getSession under sessionMutex.Lock(), given the client
\* and lease it obtained: the slot afterwards, the sessions constructed and
\* the value returned.  The new session is returned and not stored.
getSessionLocked(ses, made, cl, ls, ok) ==
    IF ses # Nil THEN [session |-> ses, made |-> made, ret |-> ses]
    ELSE IF cl = Nil \/ ls = Err \/ ~ok
         THEN [session |-> ses, made |-> made, ret |-> Err]
         ELSE [session |-> ses, made |-> made + 1, ret |-> made + 1]

getSessionFast(t) ==
    /\ ~crashed /\ pc[t] = "idle" /\ calls[t] < MaxCalls
    /\ IF session # Nil
       THEN Return(t, session) /\ UNCHANGED pc
       ELSE Goto(t, "getSession_slow") /\ UNCHANGED <<ret, calls>>
    /\ UNCHANGED <<wait, clientVars, sessionVars, lease, serverVars, done,
                   crashed, atClose, storeVars, procVars>>

getSessionSlow(t) ==
    /\ ~crashed /\ pc[t] = "getSession_slow"
    /\ \E dial \in DialOutcomes, ok \in SessionOutcomes :
         /\ IF session # Nil THEN UNCHANGED clientVars ELSE getClient(dial)
         /\ LET r == getSessionLocked(session, sessionMade, client', getLease, ok)
            IN /\ session' = r.session
               /\ sessionMade' = r.made
               /\ sessionOpen' = IF r.made > sessionMade
                                 THEN sessionOpen \cup {r.ret} ELSE sessionOpen
               /\ Return(t, r.ret)
    /\ Goto(t, "idle")
    /\ UNCHANGED <<wait, lease, serverVars, done, crashed, atClose, storeVars, procVars>>

closeSession ==
    /\ sessionOpen' = sessionOpen \ {session}
    /\ session' = Nil
    /\ UNCHANGED sessionMade

\* --------------------------------------------------------------- server
NoServer == [state |-> "none", starter |-> "none", monitor |-> "none",
             doneSig |-> FALSE, timeoutSig |-> FALSE, err |-> FALSE]
NewServer == [state |-> "starting", starter |-> "select", monitor |-> "none",
              doneSig |-> FALSE, timeoutSig |-> FALSE, err |-> FALSE]

\* closeEtcdServer(s): Close and wait for the stop when s was ready,
\* HardStop otherwise; either way s no longer runs.
closeEtcdServer(s) == [srv EXCEPT ![s].state = "stopped"]

Running(i) == srv[i].state \in {"starting", "ready"}

\* The outcomes of prepareEtcdConfig followed by embed.StartEtcd.
StartOutcomes == IF serverMade < quota.servers THEN BOOLEAN ELSE {FALSE}

\* startServer: c.serverMutex.Lock() ...
startServerLock(t, from) ==
    /\ ~crashed /\ pc[t] = from /\ serverMutex = Free
    /\ serverMutex' = t
    /\ Goto(t, "startServer_locked")
    /\ UNCHANGED <<ret, calls, wait, clientVars, sessionVars, lease, server,
                   serverWriter, serverMade, srv, done, crashed, atClose, storeVars, procVars>>

\* ... and the section under it: a closed done when the slot is set, else
\* the server is started and a goroutine is left waiting for it.  The
\* caller goes to `ok` with the channels it got, or to `failed`.
startServerLocked(t, ok, failed) ==
    /\ ~crashed /\ pc[t] = "startServer_locked"
    /\ \/ /\ server # Nil
          /\ wait' = [wait EXCEPT ![t] = AlreadyDone]
          /\ Return(t, Nil)
          /\ Goto(t, ok)
          /\ UNCHANGED <<serverMade, srv>>
       \/ /\ server = Nil
          /\ \E started \in StartOutcomes :
               IF started
               THEN /\ serverMade' = serverMade + 1
                    /\ srv' = [srv EXCEPT ![serverMade + 1] = NewServer]
                    /\ wait' = [wait EXCEPT ![t] = serverMade + 1]
                    /\ Return(t, Nil)
                    /\ Goto(t, ok)
               ELSE /\ wait' = [wait EXCEPT ![t] = Nil]
                    /\ Return(t, Err)
                    /\ Goto(t, failed)
                    /\ UNCHANGED <<serverMade, srv>>
    /\ serverMutex' = Free
    /\ UNCHANGED <<clientVars, sessionVars, lease, server, serverWriter, done,
                   crashed, atClose, storeVars, procVars>>

\* The goroutine startServer leaves behind, case <-c.done: it returns and
\* leaves the server it was waiting for as it is.
starterDone(i) ==
    /\ ~crashed /\ srv[i].starter = "select" /\ done
    /\ srv' = [srv EXCEPT ![i].starter = "exited"]
    /\ UNCHANGED <<taskVars, clientVars, sessionVars, lease, server, serverMutex,
                   serverWriter, serverMade, done, crashed, atClose, storeVars, procVars>>

\* case <-server.Server.ReadyNotify(): c.server = server, without the lock.
starterReady(i) ==
    /\ ~crashed /\ srv[i].starter = "select" /\ srv[i].state = "ready"
    /\ server' = i
    /\ serverWriter' = <<"starter", i>>
    /\ srv' = [srv EXCEPT ![i].starter = "ready"]
    /\ UNCHANGED <<taskVars, clientVars, sessionVars, lease, serverMutex,
                   serverMade, done, crashed, atClose, storeVars, procVars>>

\* go monitorServer(c.server); close(done).  c.server is read again, so the
\* monitor watches whatever the slot holds by now; monitorServer(nil)
\* panics in s.Err().
starterSignal(i) ==
    /\ ~crashed /\ srv[i].starter = "ready"
    /\ IF server = Nil
       THEN crashed' = TRUE /\ UNCHANGED srv
       ELSE /\ srv' = [srv EXCEPT ![i].starter = "exited", ![i].doneSig = TRUE,
                                  ![server].monitor = "select"]
            /\ UNCHANGED crashed
    /\ UNCHANGED <<taskVars, clientVars, sessionVars, lease, server, serverMutex,
                   serverWriter, serverMade, done, atClose, storeVars, procVars>>

\* case <-time.After(waitServerTimeout).
starterTimeoutLeak(i) ==
    /\ ~crashed /\ srv[i].starter = "select"
    /\ srv' = [srv EXCEPT ![i].starter = "exited", ![i].timeoutSig = TRUE]
    /\ UNCHANGED <<taskVars, clientVars, sessionVars, lease, server, serverMutex,
                   serverWriter, serverMade, done, crashed, atClose, storeVars, procVars>>

starterTimeout(i) ==
    /\ ~crashed /\ srv[i].starter = "select"
    /\ srv' = [closeEtcdServer(i) EXCEPT ![i].starter = "exited",
                                         ![i].timeoutSig = TRUE]
    /\ UNCHANGED <<taskVars, clientVars, sessionVars, lease, server, serverMutex,
                   serverWriter, serverMade, done, crashed, atClose, storeVars, procVars>>

\* monitorServer, case err := <-s.Err(): the log line dereferences c.server,
\* then closeEtcdServer(s); the slot is left as it is.
monitorErr(i) ==
    /\ ~crashed /\ srv[i].monitor = "select" /\ srv[i].err
    /\ IF server = Nil
       THEN crashed' = TRUE /\ UNCHANGED srv
       ELSE /\ srv' = [closeEtcdServer(i) EXCEPT ![i].monitor = "exited",
                                                 ![i].err = FALSE]
            /\ UNCHANGED crashed
    /\ UNCHANGED <<taskVars, clientVars, sessionVars, lease, server, serverMutex,
                   serverWriter, serverMade, done, atClose, storeVars, procVars>>

\* monitorServer, case <-c.done.
monitorDone(i) ==
    /\ ~crashed /\ srv[i].monitor = "select" /\ done
    /\ srv' = [srv EXCEPT ![i].monitor = "exited"]
    /\ UNCHANGED <<taskVars, clientVars, sessionVars, lease, server, serverMutex,
                   serverWriter, serverMade, done, crashed, atClose, storeVars, procVars>>

\* The embedded server: it becomes ready, and it may report an error.
etcdReady(i) ==
    /\ ~crashed /\ srv[i].state = "starting"
    /\ srv' = [srv EXCEPT ![i].state = "ready"]
    /\ UNCHANGED <<taskVars, clientVars, sessionVars, lease, server, serverMutex,
                   serverWriter, serverMade, done, crashed, atClose, storeVars, procVars>>

etcdErr(i) ==
    /\ ~crashed /\ srv[i].state = "ready" /\ ~srv[i].err
    /\ srv[i].monitor # "exited"
    /\ srv' = [srv EXCEPT ![i].err = TRUE]
    /\ UNCHANGED <<taskVars, clientVars, sessionVars, lease, server, serverMutex,
                   serverWriter, serverMade, done, crashed, atClose, storeVars, procVars>>

ServerIds == 1..MaxServers

ServerTasks ==
    \/ \E i \in ServerIds : starterDone(i)
    \/ \E i \in ServerIds : starterReady(i)
    \/ \E i \in ServerIds : starterSignal(i)
    \/ \E i \in ServerIds : starterTimeout(i)
    \/ \E i \in ServerIds : monitorErr(i)
    \/ \E i \in ServerIds : monitorDone(i)
    \/ \E i \in ServerIds : etcdReady(i)
    \/ \E i \in ServerIds : etcdErr(i)

\* ---------------------------------------------------------------- Close
\* close(c.done): closing a closed channel panics.
CloseSignal(t) ==
    /\ ~crashed /\ pc[t] = "idle"
    /\ IF done
       THEN crashed' = TRUE /\ UNCHANGED <<done, atClose, pc>>
       ELSE /\ done' = TRUE
            /\ atClose' = [clients |-> clientOpen, sessions |-> sessionOpen,
                           servers |-> {i \in 1..serverMade : Running(i)}]
            /\ Goto(t, "closeSession")
            /\ UNCHANGED crashed
    /\ UNCHANGED <<ret, calls, wait, clientVars, sessionVars, lease, serverVars,
                   storeVars, procVars>>

CloseSession(t) ==
    /\ ~crashed /\ pc[t] = "closeSession"
    /\ closeSession
    /\ Goto(t, "closeClient")
    /\ UNCHANGED <<ret, calls, wait, clientVars, lease, serverVars, done,
                   crashed, atClose, storeVars, procVars>>

CloseClient(t) ==
    /\ ~crashed /\ pc[t] = "closeClient"
    /\ closeClient
    /\ Goto(t, "closeServer")
    /\ UNCHANGED <<ret, calls, wait, sessionVars, lease, serverVars, done,
                   crashed, atClose, storeVars, procVars>>

\* closeServer: c.serverMutex.Lock() ...
closeServerLock(t) ==
    /\ ~crashed /\ pc[t] = "closeServer" /\ serverMutex = Free
    /\ serverMutex' = t
    /\ Goto(t, "closeServer_locked")
    /\ UNCHANGED <<ret, calls, wait, clientVars, sessionVars, lease, server,
                   serverWriter, serverMade, srv, done, crashed, atClose, storeVars, procVars>>

\* ... and the section under it.
closeServerLocked(t) ==
    /\ ~crashed /\ pc[t] = "closeServer_locked"
    /\ IF server = Nil
       THEN UNCHANGED <<server, serverWriter, srv>>
       ELSE /\ srv' = closeEtcdServer(server)
            /\ server' = Nil
            /\ serverWriter' = t
    /\ serverMutex' = Free
    /\ Return(t, Nil)
    /\ Goto(t, "returned")
    /\ UNCHANGED <<wait, clientVars, sessionVars, lease, serverMade, done,
                   crashed, atClose, storeVars, procVars>>

Close(t) ==
    \/ CloseSignal(t)
    \/ CloseSession(t)
    \/ CloseClient(t)
    \/ closeServerLock(t)
    \/ closeServerLocked(t)

\* ------------------------------------------------- Get / PutUnderLease
\* Whether a request sent over the client a task holds can succeed.
Usable(cl) == cl # Nil /\ cl \in clientOpen

\* PutUnderLease(key, val) by task t: getClient, getLease, client.Put with
\* the lease attached.  `ok` is whether the request itself succeeds.
putGood(ok) == client' # Nil /\ getLease # Err /\ ok /\ lease \in leasesLive

PutUnderLease(t, key, val, dial, ok) ==
    /\ getClient(dial)
    /\ kv' = IF putGood(ok)
             THEN [kv EXCEPT ![key] = [val |-> val, lease |-> lease]]
             ELSE kv
    /\ log' = IF client' # Nil /\ getLease # Err
              THEN log \cup {<<t, "Put", key>>} ELSE log

\* ------------------------------------------------------------ initLease
\* The first lines of initLease, given what getLease returned: a cached
\* lease ends the call.
initLeaseNoCheck(l) == FALSE

initLeaseCached(l) == l # Err

Fail(t, e) == /\ ret' = [ret EXCEPT ![t] = e]
              /\ Goto(t, "backoff")

\* initLease up to the adoption of a persisted lease.
initLeaseGet(t) ==
    /\ ~crashed /\ pc[t] = "initLease"
    /\ IF initLeaseCached(getLease)
       THEN /\ Goto(t, "ready")
            /\ ret' = [ret EXCEPT ![t] = Nil]
            /\ UNCHANGED <<clientVars, lease>>
       ELSE \E dial \in DialOutcomes, ok \in BOOLEAN :
              /\ getClient(dial)
              /\ IF client' = Nil \/ ~ok
                 THEN Fail(t, Err) /\ UNCHANGED lease
                 ELSE IF absent(LeaseKey(SelfName))
                 THEN Goto(t, "initLease_grant") /\ UNCHANGED <<ret, lease>>
                 ELSE LET r == strTolease(stored(LeaseKey(SelfName))) IN
                      IF r.ok
                      THEN /\ lease' = r.val
                           /\ Goto(t, "ready")
                           /\ ret' = [ret EXCEPT ![t] = Nil]
                      ELSE Fail(t, ErrParse) /\ UNCHANGED lease
    /\ UNCHANGED <<calls, wait, sessionVars, serverVars, done, crashed, atClose,
                   storeVars, procVars>>

\* getClient, Lease.Grant, and the new lease is cached.
initLeaseGrant(t) ==
    /\ ~crashed /\ pc[t] = "initLease_grant"
    /\ \E dial \in DialOutcomes, ok \in GrantOutcomes :
         /\ getClient(dial)
         /\ IF client' = Nil \/ ~ok
            THEN /\ Fail(t, Err)
                 /\ UNCHANGED <<lease, leasesLive, grants>>
                 /\ log' = IF client' = Nil THEN log ELSE log \cup {<<t, "Grant", Nil>>}
            ELSE /\ grants' = grants + 1
                 /\ leasesLive' = leasesLive \cup {GrantedId(grants + 1)}
                 /\ lease' = GrantedId(grants + 1)
                 /\ log' = log \cup {<<t, "Grant", Nil>>}
                 /\ Goto(t, "initLease_put")
                 /\ UNCHANGED ret
    /\ UNCHANGED <<calls, wait, sessionVars, serverVars, done, crashed, atClose,
                   kv, storeMembers, procVars>>

\* PutUnderLease(Layout().Lease(), fmt.Sprintf("%x", lease)).
initLeasePut(t) ==
    /\ ~crashed /\ pc[t] = "initLease_put"
    /\ \E dial \in DialOutcomes, ok \in BOOLEAN :
         /\ PutUnderLease(t, LeaseKey(SelfName), leaseToStr(lease), dial, ok)
         /\ IF putGood(ok)
            THEN Goto(t, "ready") /\ ret' = [ret EXCEPT ![t] = Nil]
            ELSE Fail(t, Err)
    /\ UNCHANGED <<calls, wait, sessionVars, lease, serverVars, done, crashed,
                   atClose, storeMembers, leasesLive, grants, procVars>>

initLease(t) == initLeaseGet(t) \/ initLeaseGrant(t) \/ initLeasePut(t)

\* ----------------------------------------------------- addSelfToCluster
\* ret[t] holds the error addSelfToCluster returns (getReady only logs it).
\* The loop over respList.Members: the first member that matches decides.
RECURSIVE joinOutcomeNoMatch(_, _)
joinOutcomeNoMatch(list, self) ==
    IF list = <<>> THEN "add"
    ELSE LET m == Head(list) IN
         IF self.name = m.name /\ self.id # m.id THEN "conflict"
         ELSE IF self.id = m.id /\ self.name # m.name THEN "conflict"
         ELSE joinOutcomeNoMatch(Tail(list), self)

RECURSIVE joinOutcome(_, _)
joinOutcome(list, self) ==
    IF list = <<>> THEN "add"
    ELSE LET m == Head(list) IN
         IF self.name = m.name /\ self.id = m.id THEN "found"
         ELSE IF self.name = m.name /\ self.id # m.id THEN "conflict"
         ELSE IF self.id = m.id /\ self.name # m.name THEN "conflict"
         ELSE joinOutcome(Tail(list), self)

\* The member MemberAdd creates: it has no name until its server starts.
Added == [name |-> "", id |-> 3]

addSelfList(t) ==
    /\ ~crashed /\ pc[t] = "addSelf"
    /\ \E dial \in DialOutcomes, ok \in BOOLEAN :
         /\ getClient(dial)
         /\ IF client' = Nil \/ ~ok
            THEN /\ Goto(t, "startServer")
                 /\ ret' = [ret EXCEPT ![t] = Err]
                 /\ UNCHANGED <<crashed, loc>>
            ELSE LET o == joinOutcome(storeMembers, Self) IN
                 IF o = "conflict"
                 THEN crashed' = TRUE /\ UNCHANGED <<pc, ret, loc>>
                 ELSE /\ Goto(t, IF o = "found" THEN "startServer" ELSE "addSelf_add")
                      /\ ret' = [ret EXCEPT ![t] = Nil]
                      /\ loc' = [loc EXCEPT ![t].client = client']
                      /\ UNCHANGED crashed
    /\ UNCHANGED <<calls, wait, sessionVars, lease, serverVars, done,
                   atClose, storeVars, opt, members, retry, defragInterval, quota, store0>>

addSelfAdd(t) ==
    /\ ~crashed /\ pc[t] = "addSelf_add"
    /\ \E ok \in BOOLEAN :
         IF Usable(loc[t].client) /\ ok /\ \A k \in 1..Len(storeMembers) :
                                             storeMembers[k] # Added
         THEN /\ storeMembers' = Append(storeMembers, Added)
              /\ members' = storeMembers'
              /\ ret' = [ret EXCEPT ![t] = Nil]
         ELSE /\ ret' = [ret EXCEPT ![t] = Err]
              /\ UNCHANGED <<storeMembers, members>>
    /\ log' = log \cup {<<t, "MemberAdd", Nil>>}
    /\ Goto(t, "startServer")
    /\ UNCHANGED <<calls, wait, clientVars, sessionVars, lease, serverVars,
                   done, crashed, atClose, kv, leasesLive, grants, opt, retry,
                   defragInterval, loc, quota, store0>>

addSelfToCluster(t) == addSelfList(t) \/ addSelfAdd(t)

\* ------------------------------------------------------------- getReady
\* calls[t] counts the calls of getReady, as far as retry counts the
\* failed ones (the i of run's loop).
attempt(n) == IF n <= MaxRetry THEN n + 1 ELSE n

getReadyReader(t) ==
    /\ ~crashed /\ pc[t] = "getReady" /\ opt.role = "reader"
    /\ \E dial \in DialOutcomes :
         /\ getClient(dial)
         /\ IF client' = Nil THEN Fail(t, Err)
            ELSE Goto(t, "initLease") /\ UNCHANGED ret
    /\ calls' = [calls EXCEPT ![t] = attempt(@)]
    /\ UNCHANGED <<wait, sessionVars, lease, serverVars, done, crashed,
                   atClose, storeVars, procVars>>

getReadyWriter(t) ==
    /\ ~crashed /\ pc[t] = "getReady" /\ opt.role # "reader"
    /\ IF ~opt.forceNew /\ Len(members) > 1
       THEN \E dial \in DialOutcomes :
              /\ getClient(dial)
              /\ Goto(t, IF client' # Nil THEN "addSelf" ELSE "startServer")
       ELSE Goto(t, "startServer") /\ UNCHANGED clientVars
    /\ calls' = [calls EXCEPT ![t] = attempt(@)]
    /\ UNCHANGED <<ret, wait, sessionVars, lease, serverVars, done,
                   crashed, atClose, storeVars, procVars>>

\* select { case <-done: getClient ...; case <-timeout: ... }
getReadySelect(t) ==
    /\ ~crashed /\ pc[t] = "getReady_select"
    /\ \/ /\ wait[t] = AlreadyDone \/ (wait[t] > 0 /\ srv[wait[t]].doneSig)
          /\ \E dial \in DialOutcomes :
               /\ getClient(dial)
               /\ IF client' = Nil THEN Fail(t, Err)
                  ELSE Goto(t, "initLease") /\ UNCHANGED ret
       \/ /\ wait[t] > 0 /\ srv[wait[t]].timeoutSig
          /\ Fail(t, ErrTimeout)
          /\ UNCHANGED clientVars
    /\ UNCHANGED <<calls, wait, sessionVars, lease, serverVars, done, crashed,
                   atClose, storeVars, procVars>>

getReady(t) ==
    \/ getReadyReader(t)
    \/ getReadyWriter(t)
    \/ addSelfToCluster(t)
    \/ startServerLock(t, "startServer")
    \/ startServerLocked(t, "getReady_select", "backoff")
    \/ getReadySelect(t)
    \/ initLease(t)

\* ------------------------------------------------------------------ run
\* time.Sleep(HeartbeatInterval); continue
runRetry(t) ==
    /\ ~crashed /\ pc[t] = "backoff"
    /\ retry' = IF retry < MaxRetry THEN retry + 1 ELSE retry
    /\ Goto(t, "getReady")
    /\ UNCHANGED <<ret, calls, wait, clientVars, sessionVars, lease, serverVars,
                   done, crashed, atClose, storeVars, opt, members,
                   defragInterval, loc, quota, store0>>

\* "cluster is ready": go c.defrag() for a writer, then c.heartbeat().
runReadyAnyRole(t) ==
    /\ ~crashed /\ pc[t] = "ready"
    /\ pc' = [pc EXCEPT ![t] = "heartbeat", ![Defrag] = "select"]
    /\ UNCHANGED <<ret, calls, wait, clientVars, sessionVars, lease, serverVars,
                   done, crashed, atClose, storeVars, procVars>>

runReady(t) ==
    /\ ~crashed /\ pc[t] = "ready"
    /\ pc' = [pc EXCEPT ![t] = "heartbeat",
                        ![Defrag] = IF opt.role = "writer" THEN "select" ELSE @]
    /\ UNCHANGED <<ret, calls, wait, clientVars, sessionVars, lease, serverVars,
                   done, crashed, atClose, storeVars, procVars>>

\* ------------------------------------------------------------ heartbeat
\* case <-time.After(HeartbeatInterval): syncStatus ...
syncStatusOrSkip(t) ==
    /\ ~crashed /\ pc[t] = "heartbeat"
    /\ IF opt.role = "writer" /\ server = Nil
       THEN /\ ret' = [ret EXCEPT ![t] = ErrNotReady]
            /\ Goto(t, "heartbeat")
            /\ UNCHANGED <<clientVars, kv, log>>
       ELSE \E dial \in DialOutcomes, ok \in BOOLEAN :
              /\ PutUnderLease(t, StatusKey(SelfName), <<"s">>, dial, ok)
              /\ ret' = [ret EXCEPT ![t] = IF putGood(ok) THEN Nil ELSE Err]
              /\ Goto(t, IF putGood(ok) THEN "updateMembers" ELSE "heartbeat")
    /\ UNCHANGED <<calls, wait, sessionVars, lease, serverVars, done, crashed,
                   atClose, storeMembers, leasesLive, grants, procVars>>

syncStatus(t) ==
    /\ ~crashed /\ pc[t] = "heartbeat"
    /\ IF opt.role = "writer" /\ server = Nil
       THEN /\ ret' = [ret EXCEPT ![t] = ErrNotReady]
            /\ UNCHANGED <<clientVars, kv, log>>
       ELSE \E dial \in DialOutcomes, ok \in BOOLEAN :
              /\ PutUnderLease(t, StatusKey(SelfName), <<"s">>, dial, ok)
              /\ ret' = [ret EXCEPT ![t] = IF putGood(ok) THEN Nil ELSE Err]
    /\ Goto(t, "updateMembers")
    /\ UNCHANGED <<calls, wait, sessionVars, lease, serverVars, done, crashed,
                   atClose, storeMembers, leasesLive, grants, procVars>>

\* ... and updateMembers.
updateMembers(t) ==
    /\ ~crashed /\ pc[t] = "updateMembers"
    /\ \E dial \in DialOutcomes, ok \in BOOLEAN :
         /\ getClient(dial)
         /\ members' = IF client' # Nil /\ ok THEN storeMembers ELSE members
         /\ ret' = [ret EXCEPT ![t] = IF client' # Nil /\ ok THEN Nil ELSE Err]
    /\ Goto(t, "heartbeat")
    /\ UNCHANGED <<calls, wait, sessionVars, lease, serverVars, done,
                   crashed, atClose, storeVars, opt, retry, defragInterval, loc, quota, store0>>

\* case <-c.done: return
heartbeatDone(t) ==
    /\ ~crashed /\ pc[t] = "heartbeat" /\ done
    /\ Goto(t, "exited")
    /\ UNCHANGED <<ret, calls, wait, clientVars, sessionVars, lease, serverVars,
                   done, crashed, atClose, storeVars, procVars>>

heartbeat(t) == syncStatus(t) \/ updateMembers(t) \/ heartbeatDone(t)

run(t) == getReady(t) \/ runRetry(t) \/ runReady(t) \/ heartbeat(t)

\* --------------------------------------------------------------- defrag
\* defragInterval after a tick whose Defragment request was made.
defragNextSticky(cur, ok) == IF ok THEN cur ELSE "failed"

defragNext(cur, ok) == IF ok THEN "normal" ELSE "failed"

\* case <-time.After(defragInterval): a failed getClient is logged and the
\* nil client is used all the same, which panics.  ret[t] is the err of
\* the tick; calls[t] counts the ticks, up to quota.ticks.
defragTick(t) ==
    /\ ~crashed /\ pc[t] = "select"
    /\ \E dial \in DialOutcomes, ok \in BOOLEAN :
         /\ getClient(dial)
         /\ IF client' = Nil
            THEN defragInterval' = "failed" /\ crashed' = TRUE
            ELSE /\ defragInterval' = defragNext(defragInterval, ok)
                 /\ UNCHANGED crashed
         /\ ret' = [ret EXCEPT ![t] = IF client' = Nil \/ ~ok THEN Err ELSE Nil]
    /\ calls' = [calls EXCEPT ![t] = IF @ < quota.ticks THEN @ + 1 ELSE @]
    /\ UNCHANGED <<pc, wait, sessionVars, lease, serverVars, done, atClose,
                   storeVars, opt, members, retry, loc, quota, store0>>

defragDone(t) ==
    /\ ~crashed /\ pc[t] = "select" /\ done
    /\ Goto(t, "exited")
    /\ UNCHANGED <<ret, calls, wait, clientVars, sessionVars, lease, serverVars,
                   done, crashed, atClose, storeVars, procVars>>

defrag(t) == defragTick(t) \/ defragDone(t)

\* ---------------------------------------------------------- PurgeMember
\* The loop over respList.Members keeps the id of the last member named so.
RECURSIVE purgeTargetOthers(_, _)
purgeTargetOthers(list, name) ==
    IF list = <<>> THEN Nil
    ELSE IF list[Len(list)].name # name THEN list[Len(list)].id
    ELSE purgeTargetOthers(SubSeq(list, 1, Len(list) - 1), name)

RECURSIVE purgeTarget(_, _)
purgeTarget(list, name) ==
    IF list = <<>> THEN Nil
    ELSE IF list[Len(list)].name = name THEN list[Len(list)].id
    ELSE purgeTarget(SubSeq(list, 1, Len(list) - 1), name)

RECURSIVE withoutMember(_, _)
withoutMember(list, id) ==
    IF list = <<>> THEN <<>>
    ELSE IF Head(list).id = id THEN withoutMember(Tail(list), id)
    ELSE <<Head(list)>> \o withoutMember(Tail(list), id)

Returned(t, v) == Return(t, v) /\ Goto(t, "returned")

\* getClient, MemberList, the search for the member.
purgeList(t) ==
    /\ ~crashed /\ pc[t] = "idle"
    /\ \E name \in Names, dial \in DialOutcomes, ok \in BOOLEAN :
         /\ getClient(dial)
         /\ loc' = [loc EXCEPT ![t] = [client |-> client', name |-> name,
                        id |-> purgeTarget(storeMembers, name), lease |-> Nil]]
         /\ IF client' = Nil \/ ~ok
            THEN Returned(t, Err)
            ELSE /\ Goto(t, IF loc'[t].id # Nil THEN "purge_remove" ELSE "purge_lease")
                 /\ UNCHANGED <<ret, calls>>
    /\ UNCHANGED <<wait, sessionVars, lease, serverVars, done, crashed, atClose,
                   storeVars, opt, members, retry, defragInterval, quota, store0>>

\* client.MemberRemove(*id)
purgeRemove(t) ==
    /\ ~crashed /\ pc[t] = "purge_remove"
    /\ log' = log \cup {<<t, "MemberRemove", loc[t].id>>}
    /\ \E ok \in BOOLEAN :
         IF Usable(loc[t].client) /\ ok
         THEN /\ storeMembers' = withoutMember(storeMembers, loc[t].id)
              /\ Goto(t, "purge_lease")
              /\ UNCHANGED <<ret, calls>>
         ELSE Returned(t, Err) /\ UNCHANGED storeMembers
    /\ UNCHANGED <<wait, clientVars, sessionVars, lease, serverVars, done,
                   crashed, atClose, kv, leasesLive, grants, procVars>>

\* c.Get(Layout().OtherLease(memberName)) and strTolease
purgeLease(t) ==
    /\ ~crashed /\ pc[t] = "purge_lease"
    /\ \E dial \in DialOutcomes, ok \in BOOLEAN :
         /\ getClient(dial)
         /\ LET v == stored(LeaseKey(loc[t].name)) IN
            IF client' = Nil \/ ~ok THEN Returned(t, Err) /\ UNCHANGED loc
            ELSE IF absent(LeaseKey(loc[t].name)) THEN Returned(t, ErrNotFound) /\ UNCHANGED loc
            ELSE IF ~strTolease(v).ok THEN Returned(t, ErrParse) /\ UNCHANGED loc
            ELSE /\ loc' = [loc EXCEPT ![t].lease = strTolease(v).val]
                 /\ Goto(t, "purge_revoke")
                 /\ UNCHANGED <<ret, calls>>
    /\ UNCHANGED <<wait, sessionVars, lease, serverVars, done, crashed, atClose,
                   storeVars, opt, members, retry, defragInterval, quota, store0>>

\* client.Lease.Revoke(lease)
purgeRevoke(t) ==
    /\ ~crashed /\ pc[t] = "purge_revoke"
    /\ log' = log \cup {<<t, "Revoke", loc[t].lease>>}
    /\ \E ok \in BOOLEAN :
         IF Usable(loc[t].client) /\ ok /\ loc[t].lease \in leasesLive
         THEN /\ kv' = revoked(loc[t].lease)
              /\ leasesLive' = leasesLive \ {loc[t].lease}
              /\ Returned(t, Nil)
         ELSE Returned(t, Err) /\ UNCHANGED <<kv, leasesLive>>
    /\ UNCHANGED <<wait, clientVars, sessionVars, lease, serverVars, done,
                   crashed, atClose, storeMembers, grants, procVars>>

PurgeMember(t) == purgeList(t) \/ purgeRemove(t) \/ purgeLease(t) \/ purgeRevoke(t)

\* ----------------------------------------------------------------- Init
InitResources ==
    /\ client = Nil /\ clientMade = 0 /\ clientOpen = {}
    /\ session = Nil /\ sessionMade = 0 /\ sessionOpen = {}
    /\ server = Nil /\ serverMutex = Free /\ serverWriter = Free
    /\ serverMade = 0 /\ srv = [i \in 1..MaxServers |-> NoServer]
    /\ done = FALSE /\ crashed = FALSE
    /\ atClose = [clients |-> {}, sessions |-> {}, servers |-> {}]
    /\ retry = 0 /\ defragInterval = "normal"
    /\ loc = [t \in Threads |-> NoLocals]
    /\ log = {} /\ grants = 0

\* ------------------------------------------------- getClient under load
InitClient ==
    /\ InitResources /\ InitIdleStore
    /\ lease = Nil
    /\ pc = [t \in Threads |-> IF t \in Getters \cup {<<"close", 1>>}
                               THEN "idle" ELSE "off"]
    /\ ret = [t \in Threads |-> Nil]
    /\ calls = [t \in Threads |-> 0]
    /\ wait = [t \in Threads |-> Nil]

NextClient ==
    \/ \E t \in Getters : getClientFast(t)
    \/ \E t \in Getters : getClientSlow(t)
    \/ \E t \in Closers : Close(t)

SpecClient == InitClient /\ [][NextClient]_vars

\* C1: while no Close has begun, however many getClient calls have run and
\* however they interleave, at most one client has been constructed, it is
\* the one in the slot, and every call that returned a client returned
\* that one (so a later call with the slot set constructs nothing); at any
\* time the only open client is the one in the slot.
C1_OneClient ==
    /\ clientOpen \subseteq {client}
    /\ client # Nil => client \in clientOpen
    /\ ~done => /\ clientMade <= 1
                /\ client = clientMade
                /\ \A t \in Getters : ret[t] \notin {Nil, Err} => ret[t] = client

\* All getters have returned the one client, one of them from a second
\* call.
C1_Witness ==
    /\ ~done /\ clientMade = 1 /\ client = 1
    /\ \A t \in Getters : calls[t] >= 1 /\ ret[t] = client
    /\ \E t \in Getters : calls[t] = MaxCalls

\* ------------------------------------------------ getSession under load
InitSession ==
    /\ InitResources /\ InitIdleStore
    /\ lease \in {Nil, 26}
    /\ pc = [t \in Threads |-> IF t \in Getters \cup Closers
                               THEN "idle" ELSE "off"]
    /\ ret = [t \in Threads |-> Nil]
    /\ calls = [t \in Threads |-> 0]
    /\ wait = [t \in Threads |-> Nil]

NextSession ==
    \/ \E t \in Getters : getSessionFast(t)
    \/ \E t \in Getters : getSessionSlow(t)
    \/ \E t \in Closers : Close(t)

SpecSession == InitSession /\ [][NextSession]_vars

\* C2: while no Close has begun, the getSession calls made so far have
\* constructed at most one session, it is in the session slot, and every
\* call that returned a session returned that one.
C2_OneSession ==
    ~done => /\ sessionMade <= 1
             /\ session = sessionMade
             /\ \A t \in Getters : ret[t] \notin {Nil, Err} => ret[t] = session

\* C8: a Close invoked after a Close has returned does not panic and
\* leaves c.done closed.
C8_SecondCloseSafe ==
    (\E t \in Closers : pc[t] = "returned") => ~crashed /\ done

\* C6: once Close has returned, every client, session and server that was
\* open or running when Close was invoked is closed or stopped.
C6_NothingLeftLive ==
    (\E t \in Closers : pc[t] = "returned") =>
        /\ atClose.clients \cap clientOpen = {}
        /\ atClose.sessions \cap sessionOpen = {}
        /\ \A i \in atClose.servers : ~Running(i)

\* ------------------------------------- StartServer / CloseServer callers
InitServer ==
    /\ InitResources /\ InitIdleStore
    /\ lease = Nil
    /\ pc = [t \in Threads |->
               IF t \in Starters \cup {<<"close", 1>>} THEN "idle"
               ELSE IF t = Stopper THEN "closeServer" ELSE "off"]
    /\ ret = [t \in Threads |-> Nil]
    /\ calls = [t \in Threads |-> 0]
    /\ wait = [t \in Threads |-> Nil]

StartServer(t) ==
    \/ calls[t] < MaxCalls /\ startServerLock(t, "idle")
    \/ startServerLocked(t, "idle", "idle")

CloseServer(t) ==
    \/ closeServerLock(t)
    \/ closeServerLocked(t)

NextServer ==
    \/ \E t \in Starters : StartServer(t)
    \/ CloseServer(Stopper)
    \/ \E t \in Closers : Close(t)
    \/ ServerTasks

SpecServer == InitServer /\ [][NextServer]_vars

\* --------------------------------------------------------- the process
\* The store a starting process finds: nothing persisted for this node, or
\* the lease an earlier run of it persisted, or a value that is no lease.
PersistedLease == {NoVal, [val |-> leaseToStr(26), lease |-> 26]}

InitProc ==
    /\ InitResources
    /\ lease = Nil
    /\ opt \in {[role |-> "reader", forceNew |-> FALSE],
                [role |-> "writer", forceNew |-> FALSE],
                [role |-> "writer", forceNew |-> TRUE]}
    /\ quota = [clients |-> MaxClients, servers |-> ProcServers, ticks |-> 0]
    /\ members = <<Self, Other>>
    /\ storeMembers \in {<<Other>>, <<Other, Self>>}
    /\ \E v \in PersistedLease :
         kv = [k \in Keys |->
                 IF k = LeaseKey(SelfName) THEN v
                 ELSE IF k = LeaseKey("n2") THEN [val |-> leaseToStr(255), lease |-> 255]
                 ELSE IF k = StatusKey("n2") THEN [val |-> <<"s">>, lease |-> 255]
                 ELSE NoVal]
    /\ leasesLive = {26, 255}
    /\ store0 = [kv |-> kv, members |-> storeMembers]
    /\ pc = [t \in Threads |-> IF t = Run THEN "getReady"
                               ELSE IF t = <<"close", 1>> THEN "idle"
                               ELSE "off"]
    /\ ret = [t \in Threads |-> Nil]
    /\ calls = [t \in Threads |-> 0]
    /\ wait = [t \in Threads |-> Nil]

NextProc ==
    \/ run(Run)
    \/ defrag(Defrag)
    \/ ServerTasks
    \/ \E t \in Closers : Close(t)

SpecProc == InitProc /\ [][NextProc]_vars

\* Every task keeps running while it can take a step, and a select whose
\* <-c.done case is ready again and again takes it in the end.
FairProc ==
    /\ SpecProc
    /\ WF_vars(run(Run)) /\ SF_vars(heartbeatDone(Run))
    /\ WF_vars(defrag(Defrag)) /\ SF_vars(defragDone(Defrag))
    /\ WF_vars(ServerTasks)
    /\ \A i \in ServerIds : SF_vars(starterDone(i)) /\ SF_vars(monitorDone(i))
    /\ \A t \in Closers : WF_vars(Close(t))

Stopped(t) == pc[t] \in {"off", "exited"}
AllStopped ==
    \/ crashed
    \/ /\ Stopped(Run) /\ Stopped(Defrag)
       /\ \A i \in ServerIds : /\ srv[i].starter \in {"none", "exited"}
                                /\ srv[i].monitor \in {"none", "exited"}

\* C7: once c.done is closed, the bootstrap task, the heartbeat, defrag
\* and the goroutines watching a server all end, and from then on no
\* client is constructed and no server is started.
C7_TasksStopAfterClose ==
    /\ done ~> AllStopped
    /\ [][done => clientMade' = clientMade /\ serverMade' = serverMade]_vars

\* C3: at most one started server runs at any time; c.server is written
\* only by the task holding serverMutex; and a server is stored in the slot
\* only when no other started server is still running.
C3_OneServerUnderLock ==
    [][/\ Cardinality({i \in ServerIds : Running(i)}') <= 1
       /\ server' # server => serverMutex = serverWriter'
       /\ (server' # server /\ server' # Nil) =>
              \A i \in ServerIds \ {server'} : ~Running(i)]_vars

\* ------------------------------------- the lease of a (re)started node
\* A reader node (no embedded server): its bootstrap task and heartbeat,
\* with Close and PurgeMember called at any time, on a store that holds
\* nothing for this node, or the lease an earlier run of it persisted, or a
\* value that is no lease.
OldLeases == {26, 161}
Corrupt == [val |-> <<"x">>, lease |-> 26]

InitLease ==
    /\ InitResources
    /\ lease = Nil
    /\ opt = [role |-> "reader", forceNew |-> FALSE]
    /\ quota = [clients |-> MaxClients, servers |-> ProcServers, ticks |-> 0]
    /\ members = <<Self, Other>>
    /\ storeMembers \in {<<Other>>, <<Other, Self>>}
    /\ \E v \in {NoVal, Corrupt} \cup {[val |-> leaseToStr(l), lease |-> l] : l \in OldLeases} :
         kv = [k \in Keys |->
                 IF k = LeaseKey(SelfName) THEN v
                 ELSE IF k = LeaseKey("n2") THEN [val |-> leaseToStr(255), lease |-> 255]
                 ELSE NoVal]
    /\ leasesLive = {kv[k].lease : k \in Keys} \ {Nil}
    /\ store0 = [kv |-> kv, members |-> storeMembers]
    /\ pc = [t \in Threads |-> IF t = Run THEN "getReady"
                               ELSE IF t \in {<<"close", 1>>, Purger} THEN "idle"
                               ELSE "off"]
    /\ ret = [t \in Threads |-> Nil]
    /\ calls = [t \in Threads |-> 0]
    /\ wait = [t \in Threads |-> Nil]

NextLease ==
    \/ getReadyReader(Run)
    \/ initLease(Run)
    \/ runRetry(Run)
    \/ runReady(Run)
    \/ heartbeat(Run)
    \/ \E t \in Closers : Close(t)
    \/ PurgeMember(Purger)

SpecLease == InitLease /\ [][NextLease]_vars

\* C4: once c.lease holds a lease id, every later step of any task leaves
\* it as it is.
C4_LeaseStable == [][lease # Nil => lease' = lease]_vars

\* The lease was cached by a bootstrap attempt that then failed, the
\* bootstrap was retried, this node was purged and Close has returned.
C4_Witness ==
    /\ lease # Nil /\ retry > 0 /\ pc[Run] = "exited"
    /\ pc[Purger] = "returned" /\ ret[Purger] = Nil /\ loc[Purger].name = SelfName
    /\ pc[<<"close", 1>>] = "returned"

\* C5: when initLease runs with no lease cached while the lease key of this
\* node holds the hex form of a lease id L, it grants nothing and writes
\* nothing; it ends at once, with L cached and no error, unless the read of
\* the key itself failed (and then with the error of the read and nothing
\* cached).
C5_LeaseRecovered ==
    [][\A L \in OldLeases :
         (/\ pc[Run] = "initLease" /\ pc'[Run] # "initLease"
          /\ lease = Nil
          /\ ~absent(LeaseKey(SelfName))
          /\ stored(LeaseKey(SelfName)) = leaseToStr(L))
         => /\ grants' = grants /\ kv' = kv /\ log' = log
            /\ \/ pc'[Run] = "ready" /\ ret'[Run] = Nil /\ lease' = L
               \/ pc'[Run] = "backoff" /\ ret'[Run] = Err /\ lease' = Nil]_vars

\* The restarted node is ready on the lease it had persisted, having
\* granted and written nothing.
C5_Witness ==
    /\ pc[Run] = "ready" /\ lease = 161 /\ grants = 0 /\ log = {}
    /\ stored(LeaseKey(SelfName)) = <<"a", "1">>

\* ---------------------------------------------------------- PurgeMember
\* One PurgeMember(name) on a store in which each node may or may not be a
\* member and may or may not have its lease (with its status) persisted.
MemberLists == {<<Self>>, <<Other>>, <<Self, Other>>, <<Other, Self>>,
                <<Self, Other, [name |-> "n1", id |-> 3]>>}

InitPurge ==
    /\ InitResources
    /\ lease = Nil
    /\ opt = [role |-> "writer", forceNew |-> FALSE]
    /\ quota = [clients |-> MaxClients, servers |-> ProcServers, ticks |-> 0]
    /\ members = <<Self>>
    /\ storeMembers \in MemberLists
    /\ \E has \in [Names -> BOOLEAN] :
         kv = [k \in Keys |->
                 IF has[k[2]]
                 THEN [val |-> IF k[1] = "lease"
                               THEN leaseToStr(IF k[2] = SelfName THEN 26 ELSE 255)
                               ELSE <<"s">>,
                       lease |-> IF k[2] = SelfName THEN 26 ELSE 255]
                 ELSE NoVal]
    /\ leasesLive = {kv[k].lease : k \in Keys} \ {Nil}
    /\ store0 = [kv |-> kv, members |-> storeMembers]
    /\ pc = [t \in Threads |-> IF t = Purger THEN "idle" ELSE "off"]
    /\ ret = [t \in Threads |-> Nil]
    /\ calls = [t \in Threads |-> 0]
    /\ wait = [t \in Threads |-> Nil]

NextPurge == PurgeMember(Purger)

SpecPurge == InitPurge /\ [][NextPurge]_vars

hadLease(n) == store0.kv[LeaseKey(n)] # NoVal
wasMember(n) == \E k \in 1..Len(store0.members) : store0.members[k].name = n
isMember(n) == \E k \in 1..Len(storeMembers) : storeMembers[k].name = n
Requested(t, what) == \E e \in log : e[1] = t /\ e[2] = what

\* C9 as stated: PurgeMember(name) for a name without a persisted lease
\* record issues no member-remove and no lease-revoke, whatever the member
\* list holds, and fails with not-found (when no request failed).
C9_NoMutationAtAll ==
    (pc[Purger] = "returned" /\ ~hadLease(loc[Purger].name)) =>
        /\ log = {} /\ kv = store0.kv /\ storeMembers = store0.members
        /\ ret[Purger] # Err => ret[Purger] = ErrNotFound

\* C9, amended: such a PurgeMember never succeeds, never revokes a lease
\* and changes no key, and fails with not-found when no request failed; it
\* issues a member-remove exactly when the member list holds a member of
\* that name, which it removes before it fails with not-found.
C9_NoRevoke ==
    (pc[Purger] = "returned" /\ ~hadLease(loc[Purger].name)) =>
        /\ ret[Purger] \in {Err, ErrNotFound}
        /\ ~Requested(Purger, "Revoke") /\ kv = store0.kv
        /\ Requested(Purger, "MemberRemove") => wasMember(loc[Purger].name)
        /\ ~wasMember(loc[Purger].name) =>
               log = {} /\ storeMembers = store0.members
        /\ (ret[Purger] = ErrNotFound /\ wasMember(loc[Purger].name)) =>
               Requested(Purger, "MemberRemove")

\* A purge of a member without a lease record has removed the member and
\* failed with not-found.
C9_Witness ==
    /\ pc[Purger] = "returned" /\ ~hadLease(loc[Purger].name)
    /\ ret[Purger] = ErrNotFound
    /\ wasMember(loc[Purger].name)
    /\ Requested(Purger, "MemberRemove")
    /\ storeMembers # store0.members

\* C10: PurgeMember(name) for a name with a persisted lease record and no
\* member of that name issues no member-remove and no request but the
\* revoke of the lease recorded at the name's lease key; when no request
\* fails it returns success, and that lease and the keys under it are gone.
C10_RevokesRecordedLease ==
    LET n == loc[Purger].name
        L == store0.kv[LeaseKey(n)].lease IN
    (pc[Purger] = "returned" /\ hadLease(n) /\ ~wasMember(n)) =>
        /\ log \subseteq {<<Purger, "Revoke", L>>}
        /\ storeMembers = store0.members
        /\ ret[Purger] \in {Nil, Err}
        /\ ret[Purger] = Nil =>
              /\ log = {<<Purger, "Revoke", L>>}
              /\ L \notin leasesLive
              /\ \A k \in Keys : kv[k] = IF store0.kv[k].lease = L THEN NoVal
                                         ELSE store0.kv[k]

\* A purge of a node that has a lease record and is no member succeeded.
C10_Witness ==
    /\ pc[Purger] = "returned" /\ ret[Purger] = Nil
    /\ hadLease(loc[Purger].name) /\ ~wasMember(loc[Purger].name)
    /\ log = {<<Purger, "Revoke", 255>>}
    /\ absent(LeaseKey("n2")) /\ ~absent(LeaseKey("n1"))

\* C11: when PurgeMember(name) has returned success, the lease key and the
\* status key the purged member had written under its lease are gone, no
\* store member is named name, and every key written under another lease
\* is as it was.
C11_PurgedGone ==
    LET n == loc[Purger].name
        L == store0.kv[LeaseKey(n)].lease IN
    (pc[Purger] = "returned" /\ ret[Purger] = Nil) =>
        /\ absent(LeaseKey(n)) /\ absent(StatusKey(n))
        /\ ~isMember(n)
        /\ \A k \in Keys : store0.kv[k].lease # L => kv[k] = store0.kv[k]

\* ------------------------------------------------------ the join protocol
\* A writer node that knows a peer, on a store whose member list is any of
\* JoinLists, and whose embedded server fails to start: every bootstrap
\* attempt runs addSelfToCluster again.
NameClash == [name |-> "n1", id |-> 3]
IdClash == [name |-> "n2", id |-> 1]
JoinLists == {<<Other>>, <<Other, Self>>, <<Self, Other>>, <<Other, Added>>,
              <<Other, NameClash>>, <<NameClash, Other>>, <<IdClash>>,
              <<Self, NameClash>>, <<NameClash, Self>>}

InitJoin ==
    /\ InitResources
    /\ lease = Nil
    /\ opt = [role |-> "writer", forceNew |-> FALSE]
    /\ quota = [clients |-> MaxClients, servers |-> 0, ticks |-> 0]
    /\ members = <<Self, Other>>
    /\ storeMembers \in JoinLists
    /\ kv = [k \in Keys |-> NoVal]
    /\ leasesLive = {}
    /\ store0 = [kv |-> kv, members |-> storeMembers]
    /\ pc = [t \in Threads |-> IF t = Run THEN "getReady" ELSE "off"]
    /\ ret = [t \in Threads |-> Nil]
    /\ calls = [t \in Threads |-> 0]
    /\ wait = [t \in Threads |-> Nil]

NextJoin ==
    \/ getReadyWriter(Run)
    \/ addSelfToCluster(Run)
    \/ startServerLock(Run, "startServer")
    \/ startServerLocked(Run, "getReady_select", "backoff")
    \/ runRetry(Run)

SpecJoin == InitJoin /\ [][NextJoin]_vars

exactIn(list) == \E k \in 1..Len(list) : list[k] = Self
conflictIn(list) ==
    \E k \in 1..Len(list) :
        \/ list[k].name = Self.name /\ list[k].id # Self.id
        \/ list[k].id = Self.id /\ list[k].name # Self.name

\* What an addSelfToCluster call that finds the node a member does: it
\* returns (nil, or the error of a failed request), having issued no
\* member-add and changed neither the local view nor the store.
joinedAlready ==
    /\ ~crashed' /\ pc'[Run] = "startServer" /\ ret'[Run] \in {Nil, Err}
    /\ log' = log /\ members' = members /\ storeMembers' = storeMembers

\* C12 as stated: whenever the member list holds a member with this node's
\* name and id, every addSelfToCluster call returns without a member-add
\* and without a change of the local view.
C12_JoinIdempotent ==
    [][(pc[Run] = "addSelf" /\ exactIn(storeMembers)) => joinedAlready]_vars

\* C12, amended: the same, when moreover no member of the list conflicts
\* with this node (its name with another id, or its id with another name).
C12_JoinIdempotentNoClash ==
    [][(pc[Run] = "addSelf" /\ exactIn(storeMembers) /\ ~conflictIn(storeMembers))
          => joinedAlready]_vars

\* A retried bootstrap attempt has run addSelfToCluster again: it returned
\* nil, and no member-add was ever issued.
C12_Witness ==
    /\ retry > 0 /\ pc[Run] = "startServer" /\ ret[Run] = Nil
    /\ exactIn(storeMembers) /\ ~conflictIn(storeMembers)
    /\ log = {} /\ members = <<Self, Other>>

\* C13: whenever the member list holds a member that conflicts with this
\* node, wherever it stands in the list, an addSelfToCluster call whose
\* requests succeed ends in the fatal conflict, and none issues a
\* member-add.
C13_ConflictFatal ==
    [][(pc[Run] = "addSelf" /\ conflictIn(storeMembers)) =>
          /\ crashed' \/ (pc'[Run] = "startServer" /\ ret'[Run] = Err)
          /\ log' = log]_vars

\* ------------------------------------------------- the bootstrap retries
Bootstrapping == {"getReady", "addSelf", "addSelf_add", "startServer",
                  "startServer_locked", "getReady_select", "initLease",
                  "initLease_grant", "initLease_put", "backoff"}
Beating == {"heartbeat", "updateMembers", "exited"}

\* The bootstrap of a reader or a writer and what it starts, up to the
\* shutdown (which C14 is not about): no Close is called, so the cases
\* <-c.done are never taken.
NextBoot ==
    \/ getReady(Run)
    \/ runRetry(Run)
    \/ runReady(Run)
    \/ syncStatus(Run)
    \/ updateMembers(Run)
    \/ defragTick(Defrag)
    \/ \E i \in ServerIds : starterReady(i)
    \/ \E i \in ServerIds : starterSignal(i)
    \/ \E i \in ServerIds : starterTimeout(i)
    \/ \E i \in ServerIds : monitorErr(i)
    \/ \E i \in ServerIds : etcdReady(i)
    \/ \E i \in ServerIds : etcdErr(i)

SpecBoot == InitProc /\ [][NextBoot]_vars

\* C14: a failed getReady is followed by one backoff and the next call of
\* getReady, so that the bootstrap that gets ready after N failed attempts
\* has made N+1 attempts; once ready it enters the heartbeat loop and never
\* bootstraps again; defrag is started then, once, on a writer and never on
\* a reader; no status is published and no defrag tick is made before.
C14_BootstrapRetries ==
    /\ [](/\ pc[Run] \in Bootstrapping \cup {"ready"} \cup Beating
          /\ pc[Run] # "getReady" => calls[Run] = retry + 1
          /\ pc[Run] \in Bootstrapping \cup {"ready"} =>
                 /\ pc[Defrag] = "off" /\ defragInterval = "normal"
                 /\ <<Run, "Put", StatusKey(SelfName)>> \notin log
          /\ pc[Defrag] # "off" => opt.role = "writer")
    /\ [][/\ pc[Run] \in Beating =>
                 /\ pc'[Run] \in Beating
                 /\ retry' = retry /\ calls'[Run] = calls[Run]
          /\ pc'[Run] = "backoff" /\ pc[Run] # "backoff" =>
                 ret'[Run] # Nil /\ retry' = retry
          /\ pc'[Run] = "getReady" /\ pc[Run] # "getReady" =>
                 /\ pc[Run] = "backoff"
                 /\ retry' = IF retry < MaxRetry THEN retry + 1 ELSE retry
          /\ pc'[Run] = "ready" /\ pc[Run] # "ready" => ret'[Run] = Nil
          /\ pc[Run] = "ready" /\ pc'[Run] # "ready" =>
                 /\ pc'[Run] = "heartbeat"
                 /\ pc'[Defrag] = IF opt.role = "writer" THEN "select" ELSE "off"
          /\ pc[Defrag] # "off" => pc'[Defrag] # "off"]_vars

\* A writer got ready at its second attempt and is in the heartbeat loop
\* with defrag started.
C14_Witness ==
    /\ ~crashed /\ opt.role = "writer" /\ pc[Run] = "heartbeat"
    /\ retry = 1 /\ calls[Run] = 2 /\ pc[Defrag] = "select"

\* ------------------------------------------------ the maintenance loop
\* A writer node from its construction on, restarted on the store it was
\* a member of, with the ticks of defrag counted.
InitDefrag ==
    /\ InitResources
    /\ lease = Nil
    /\ opt = [role |-> "writer", forceNew |-> FALSE]
    /\ quota = [clients |-> MaxClients, servers |-> ProcServers, ticks |-> MaxTicks]
    /\ members = <<Self, Other>>
    /\ storeMembers = <<Other, Self>>
    /\ kv = [k \in Keys |->
               IF k = LeaseKey(SelfName) THEN [val |-> leaseToStr(26), lease |-> 26]
               ELSE NoVal]
    /\ leasesLive = {26}
    /\ store0 = [kv |-> kv, members |-> storeMembers]
    /\ pc = [t \in Threads |-> IF t = Run THEN "getReady"
                               ELSE IF t = <<"close", 1>> THEN "idle"
                               ELSE "off"]
    /\ ret = [t \in Threads |-> Nil]
    /\ calls = [t \in Threads |-> 0]
    /\ wait = [t \in Threads |-> Nil]

\* The lease is found persisted and the node is a store member already, so
\* initLease grants nothing and addSelfToCluster adds nothing.  The
\* heartbeat loop, which leaves defrag's variables alone, is not run.
NextDefrag ==
    \/ getReadyWriter(Run)
    \/ addSelfList(Run)
    \/ startServerLock(Run, "startServer")
    \/ startServerLocked(Run, "getReady_select", "backoff")
    \/ getReadySelect(Run)
    \/ initLeaseGet(Run)
    \/ runRetry(Run)
    \/ runReady(Run)
    \/ defrag(Defrag)
    \/ ServerTasks
    \/ \E t \in Closers : Close(t)

SpecDefrag == InitDefrag /\ [][NextDefrag]_vars

\* C15: defragInterval is normal until defrag runs and never anything but
\* normal or failed; a tick whose Defragment request failed leaves it
\* failed for the next wait, a tick whose request succeeded leaves it
\* normal.
C15_IntervalFollowsTick ==
    /\ [](/\ defragInterval \in {"normal", "failed"}
          /\ calls[Defrag] = 0 => defragInterval = "normal")
    /\ [][(defragTick(Defrag) /\ client' # Nil) =>
             /\ pc'[Defrag] = "select" /\ ~crashed'
             /\ defragInterval' = IF ret'[Defrag] = Err THEN "failed" ELSE "normal"]_vars

\* The Defragment request of the second tick failed: the loop waits again,
\* for the failed interval.
C15_Witness ==
    /\ ~crashed /\ pc[Defrag] = "select" /\ calls[Defrag] = 2
    /\ ret[Defrag] = Err /\ defragInterval = "failed"

\* C16: a tick in which getClient fails does not crash the process: it
\* sets the interval to failed and the loop goes on to the next wait.
C16_DialFailureSurvived ==
    [][(defragTick(Defrag) /\ client' = Nil) =>
          /\ ~crashed' /\ pc'[Defrag] = "select"
          /\ defragInterval' = "failed"]_vars

\* --------------------------------------------------- the heartbeat loop
\* The writer of InitDefrag from its construction on, with its heartbeat
\* loop and without its defrag loop.
NextBeat ==
    \/ getReadyWriter(Run)
    \/ addSelfList(Run)
    \/ startServerLock(Run, "startServer")
    \/ startServerLocked(Run, "getReady_select", "backoff")
    \/ getReadySelect(Run)
    \/ initLeaseGet(Run)
    \/ runRetry(Run)
    \/ runReady(Run)
    \/ heartbeat(Run)
    \/ ServerTasks
    \/ \E t \in Closers : Close(t)

SpecBeat == InitDefrag /\ [][NextBeat]_vars

\* C17: in the heartbeat loop a tick is syncStatus followed by
\* updateMembers, whatever syncStatus returned; updateMembers overwrites
\* the local view with the member list unless its request fails; neither
\* step crashes or ends the loop, which is left only by the case <-c.done.
C17_BothStepsEachTick ==
    [][/\ syncStatus(Run) => pc'[Run] = "updateMembers"
       /\ (pc[Run] = "heartbeat" /\ pc'[Run] # "heartbeat") =>
             \/ pc'[Run] = "updateMembers"
             \/ pc'[Run] = "exited" /\ done
       /\ (pc[Run] = "updateMembers" /\ pc'[Run] # "updateMembers") =>
             /\ pc'[Run] = "heartbeat"
             /\ members' = storeMembers \/ ret'[Run] = Err
       /\ (pc[Run] \in {"heartbeat", "updateMembers"} /\ pc'[Run] # pc[Run]) =>
             crashed' = crashed]_vars

\* The status publish of a tick failed on a writer whose server slot is
\* empty, and the loop is about to refresh the members.
C17_Witness ==
    /\ ~crashed /\ opt.role = "writer" /\ server = Nil
    /\ pc[Run] = "updateMembers" /\ ret[Run] = ErrNotReady

\* ------------------------------------------ the signals of startServer
\* C18: of the done and the timeout of a started server at most one is
\* signalled; done is signalled only by the goroutine that has stored the
\* server in c.server in an earlier step; a timeout is signalled with the
\* server stopped and c.server not set to it; and a startServer that finds
\* c.server set starts nothing and returns a closed done.
C18_DoneOrTimeout ==
    /\ [](\A i \in ServerIds :
            /\ ~(srv[i].doneSig /\ srv[i].timeoutSig)
            /\ srv[i].timeoutSig => srv[i].state = "stopped" /\ server # i)
    /\ [][/\ \A i \in ServerIds :
               /\ (srv'[i].doneSig /\ ~srv[i].doneSig) => srv[i].starter = "ready"
               /\ (srv'[i].starter = "ready" /\ srv[i].starter # "ready") => server' = i
               /\ (srv'[i].timeoutSig /\ ~srv[i].timeoutSig) => server' = server
          /\ \A t \in Starters \cup {Run} :
               (pc[t] = "startServer_locked" /\ pc'[t] # "startServer_locked"
                    /\ server # Nil) =>
                   /\ serverMade' = serverMade /\ srv' = srv
                   /\ wait'[t] = AlreadyDone /\ ret'[t] = Nil]_vars

\* One started server timed out and was stopped, a later one became ready
\* and signalled done, and a call that found it in the slot returned a
\* closed done.
C18_Witness ==
    /\ ~crashed
    /\ \E i, j \in ServerIds :
         /\ srv[i].timeoutSig /\ srv[i].state = "stopped"
         /\ srv[j].doneSig /\ server = j
    /\ \E t \in Starters : wait[t] = AlreadyDone

\* ------------------------------------------------- the persisted lease
\* C19: whenever the bootstrap has declared the cluster ready and this
\* node's lease has not been purged, the lease key of this node holds the
\* hex form of the cached lease.
C19_ReadyMeansPersisted ==
    (/\ pc[Run] \in {"ready"} \cup Beating
     /\ ~(loc[Purger].name = SelfName /\ Requested(Purger, "Revoke"))) =>
        /\ lease # Nil
        /\ ~absent(LeaseKey(SelfName))
        /\ stored(LeaseKey(SelfName)) = leaseToStr(lease)

\* ---------------------------------------------- the slot and its server
\* C20: whenever c.server is set the server it refers to is running, and
\* the error monitor never crashes on an empty slot.
C20_SlotHoldsRunning ==
    /\ [](server # Nil => Running(server))
    /\ [][(\E i \in ServerIds : monitorErr(i)) => ~crashed']_vars
====
